---- MODULE Spec2Model ----
(***************************************************************************)
(* A model of import-xml-into-mdb.py: the streaming import of the          *)
(* repeating elements of an XML file into a MongoDB collection.            *)
(*                                                                         *)
(*   Spec           insert_array_elements_into_db: the parse loop, the     *)
(*                  batching and the calls of coll.insert_many             *)
(*   SpecMatch      is_matching_repeating_element on bounded lineages      *)
(*   SpecTranslate  recurse_element_descending on bounded element trees    *)
(*                                                                         *)
(* Text (element text, attribute values) is a sequence of one-character    *)
(* strings, so that str.strip() is computed; tags, attribute names and     *)
(* dictionary keys are strings.  None and '' are both the empty sequence   *)
(* (the code only ever tests them for truth).                              *)
(***************************************************************************)
EXTENDS Integers, Sequences, FiniteSets, TLC

(***************************************************************************)
(* Bounds of the model                                                     *)
(***************************************************************************)
MaxEvents == 5      \* end events fired by the parser in one run
MaxBatch == 3       \* small batch sizes tried besides the default
MaxLineage == 4     \* longest root-to-element chain given to the matcher
MaxDepth == 2       \* levels of elements above a leaf in a translated tree

(***************************************************************************)
(* Constants of the program                                                *)
(***************************************************************************)
DefaultBatchSize == 1000
VALUE_FIELD_PREFIX == "val"

VARIABLES
    \* insert_array_elements_into_db
    pc,                     \* position in the function
    MDB_BATCH_INSERT_SIZE,  \* the batch size of the run
    axis_path,              \* the repeating path, root first
    ignore_list,            \* tags ignored directly under the repeating element
    count,                  \* local count
    records_batch,          \* local records_batch
    record_dict,            \* local record_dict
    elem,                   \* the element of the event being handled
    fired,                  \* every event the parser has fired, in order
    cleared,                \* indices (into fired) of the elements cleared
    inserted,               \* log of the coll.insert_many calls
    \* is_matching_repeating_element, on its own
    m_pc, m_axis_path, m_elem, m_result,
    \* recurse_element_descending, on its own
    t_pc, t_elem, t_ignore_list, t_result

vars == <<pc, MDB_BATCH_INSERT_SIZE, axis_path, ignore_list, count, records_batch,
          record_dict, elem, fired, cleared, inserted,
          m_pc, m_axis_path, m_elem, m_result,
          t_pc, t_elem, t_ignore_list, t_result>>

driverVars == <<pc, MDB_BATCH_INSERT_SIZE, axis_path, ignore_list, count, records_batch,
                record_dict, elem, fired, cleared, inserted>>

matchVars == <<m_pc, m_axis_path, m_elem, m_result>>

translateVars == <<t_pc, t_elem, t_ignore_list, t_result>>

(***************************************************************************)
(* Python values: str, list and dict.  A dict is the sequence of its       *)
(* entries in insertion order.                                             *)
(***************************************************************************)
StrVal(s) == [kind |-> "str", s |-> s, items |-> <<>>]

ListVal(items) == [kind |-> "list", s |-> <<>>, items |-> items]

DictVal(entries) == [kind |-> "dict", s |-> <<>>, items |-> entries]

EmptyDict == DictVal(<<>>)

\* Python truth of a str, list or dict: non-empty
Truthy(v) == IF v.kind = "str" THEN Len(v.s) > 0 ELSE Len(v.items) > 0

\* key in d
HasKey(d, key) == \E i \in 1..Len(d.items) : d.items[i].k = key

\* d[key]
DictGet(d, key) == d.items[CHOOSE i \in 1..Len(d.items) : d.items[i].k = key].v

\* d[key] = value: replaces the value of a key already there, else adds the key last
DictSet(d, key, value) ==
    IF HasKey(d, key)
    THEN DictVal([i \in 1..Len(d.items) |->
                    IF d.items[i].k = key THEN [k |-> key, v |-> value] ELSE d.items[i]])
    ELSE DictVal(Append(d.items, [k |-> key, v |-> value]))

\* x in lst
InList(x, lst) == \E i \in 1..Len(lst) : lst[i] = x

\* an lxml element below the repeating element: tag, attributes (name, value), text, children
Element(tag, attrib, text, children) ==
    [tag |-> tag, attrib |-> attrib, text |-> text, children |-> children]

(***************************************************************************)
(* str.strip()                                                             *)
(***************************************************************************)
IsSpace(c) == c \in {" ", "\n", "\t"}

RECURSIVE lstrip(_)
lstrip(s) == IF s # <<>> /\ IsSpace(Head(s)) THEN lstrip(Tail(s)) ELSE s

RECURSIVE rstrip(_)
rstrip(s) ==
    IF s # <<>> /\ IsSpace(s[Len(s)]) THEN rstrip(SubSeq(s, 1, Len(s) - 1)) ELSE s

strip(s) == rstrip(lstrip(s))

(***************************************************************************)
(* set_unique_key_val_if_exists                                            *)
(***************************************************************************)
\* the while loop: prefix underscores until the key is not in the dict
RECURSIVE UniqueKey(_, _)
UniqueKey(record_dict_, keyfield) ==
    IF HasKey(record_dict_, keyfield)
    THEN UniqueKey(record_dict_, "_" \o keyfield)
    ELSE keyfield

\* mutant: stores under the key as given
set_key_val_overwriting(record_dict_, key, value) ==
    IF key # "" /\ Truthy(value) THEN DictSet(record_dict_, key, value) ELSE record_dict_

set_unique_key_val_if_exists(record_dict_, key, value) ==
    IF key # "" /\ Truthy(value)
    THEN DictSet(record_dict_, UniqueKey(record_dict_, key), value)
    ELSE record_dict_

(***************************************************************************)
(* recurse_element_descending                                              *)
(***************************************************************************)
\* mutant: ignores the listed tags at every depth
ChildIncludedAtAnyDepth(child, tag, ignore_list_, depth) ==
    Truthy(child) /\ ~InList(tag, ignore_list_)

\* line 188: the condition under which a translated child is kept
ChildIncluded(child, tag, ignore_list_, depth) ==
    Truthy(child) /\ (depth > 1 \/ ~InList(tag, ignore_list_))

\* mutant: a single child is stored bare, a list is made at the second one
AddChildBareWhenSingle(result, tag, child) ==
    IF ~HasKey(result, tag)
    THEN DictSet(result, tag, child)
    ELSE IF DictGet(result, tag).kind = "list"
         THEN DictSet(result, tag, ListVal(Append(DictGet(result, tag).items, child)))
         ELSE DictSet(result, tag, ListVal(<<DictGet(result, tag), child>>))

\* lines 191-194: a new one-element list, or an append to the list there
AddChild(result, tag, child) ==
    IF ~HasKey(result, tag)
    THEN DictSet(result, tag, ListVal(<<child>>))
    ELSE DictSet(result, tag, ListVal(Append(DictGet(result, tag).items, child)))

\* lines 196-197: the loop over elem.items()
RECURSIVE AttrLoop(_, _, _)
AttrLoop(attrib, i, result) ==
    IF i > Len(attrib)
    THEN result
    ELSE AttrLoop(attrib, i + 1,
                  set_unique_key_val_if_exists(result, attrib[i][1], StrVal(attrib[i][2])))

\* line 199: elem.text and elem.text.strip()
HasText(text) == text # <<>> /\ strip(text) # <<>>

RECURSIVE recurse_element_descending(_, _, _)
RECURSIVE ChildLoop(_, _, _, _, _)
\* lines 185-194: the loop over elem.getchildren()
ChildLoop(children, ignore_list_, depth, i, result) ==
    IF i > Len(children)
    THEN result
    ELSE LET child_elem == children[i]
             child == recurse_element_descending(child_elem, ignore_list_, depth + 1)
         IN  ChildLoop(children, ignore_list_, depth, i + 1,
                       IF ChildIncluded(child, child_elem.tag, ignore_list_, depth)
                       THEN AddChild(result, child_elem.tag, child)
                       ELSE result)

recurse_element_descending(elem_, ignore_list_, depth) ==
    LET fromChildren == ChildLoop(elem_.children, ignore_list_, depth, 1, EmptyDict)
        result == AttrLoop(elem_.attrib, 1, fromChildren)
    IN  IF HasText(elem_.text)
        THEN IF Truthy(result)
             THEN set_unique_key_val_if_exists(result, VALUE_FIELD_PREFIX,
                                               StrVal(elem_.text))
             ELSE StrVal(elem_.text)
        ELSE result

(***************************************************************************)
(* is_matching_repeating_element.  An element is given with its lineage:   *)
(* the tags from the document root down to the element itself.  curr_elem  *)
(* is an index into the lineage, 0 for None; getparent() is one less.      *)
(***************************************************************************)
\* mutant: the check after the loop is left out
RECURSIVE MatchWalkSuffixOnly(_, _, _, _)
MatchWalkSuffixOnly(axis_path_, lineage, k, curr_elem) ==
    IF k = 0
    THEN TRUE
    ELSE IF curr_elem = 0 \/ axis_path_[k] # lineage[curr_elem]
         THEN FALSE
         ELSE MatchWalkSuffixOnly(axis_path_, lineage, k - 1, curr_elem - 1)

\* the loop over reversed(axis_path) and the check after it
RECURSIVE MatchWalk(_, _, _, _)
MatchWalk(axis_path_, lineage, k, curr_elem) ==
    IF k = 0
    THEN curr_elem = 0
    ELSE IF curr_elem = 0 \/ axis_path_[k] # lineage[curr_elem]
         THEN FALSE
         ELSE MatchWalk(axis_path_, lineage, k - 1, curr_elem - 1)

is_matching_suffix_only(axis_path_, elem_) ==
    MatchWalkSuffixOnly(axis_path_, elem_.lineage, Len(axis_path_), Len(elem_.lineage))

is_matching_repeating_element(axis_path_, elem_) ==
    MatchWalk(axis_path_, elem_.lineage, Len(axis_path_), Len(elem_.lineage))

(***************************************************************************)
(* insert_array_elements_into_db.  etree.iterparse(events=('end',),        *)
(* tag=axis_path[-1]) fires one event per element named as the last path   *)
(* segment, wherever it is in the document; an event is the element's      *)
(* lineage and its subtree.                                                *)
(***************************************************************************)
AxisPath == <<"DATA", "ITEMS", "ITEM">>

ItemBob == Element("ITEM", <<>>, <<>>, <<Element("name", <<>>, <<"B", "o", "b">>, <<>>)>>)

ItemText == Element("ITEM", <<>>, <<"A", "l">>, <<>>)

ItemBlank == Element("ITEM", <<>>, <<"\n", " ">>, <<>>)

ItemNoted == Element("ITEM", <<>>, <<>>, <<Element("note", <<>>, <<"N">>, <<>>)>>)

\* the events the parser may fire: the last tag of the lineage is always the repeating tag
Events ==
    {[lineage |-> AxisPath, node |-> n] : n \in {ItemBob, ItemText, ItemBlank, ItemNoted}}
    \cup {[lineage |-> <<"OTHER", "DATA", "ITEMS", "ITEM">>, node |-> ItemBob]}

IgnoreLists == {<<>>, <<"note">>}

BatchSizes == (1..MaxBatch) \cup {DefaultBatchSize}

NoEvent == [lineage |-> <<>>, node |-> Element("", <<>>, <<>>, <<>>)]

\* the values the variables of the other two specifications rest at
MatchIdle ==
    /\ m_pc = "idle"
    /\ m_axis_path = <<>>
    /\ m_elem = NoEvent
    /\ m_result = FALSE

TranslateIdle ==
    /\ t_pc = "idle"
    /\ t_elem = NoEvent.node
    /\ t_ignore_list = <<>>
    /\ t_result = EmptyDict

DriverIdle ==
    /\ pc = "idle"
    /\ MDB_BATCH_INSERT_SIZE = DefaultBatchSize
    /\ axis_path = AxisPath
    /\ ignore_list = <<>>
    /\ count = 0
    /\ records_batch = <<>>
    /\ record_dict = EmptyDict
    /\ elem = NoEvent
    /\ fired = <<>>
    /\ cleared = {}
    /\ inserted = <<>>

\* lines 144-147
Init ==
    /\ pc = "iter"
    /\ MDB_BATCH_INSERT_SIZE \in BatchSizes
    /\ axis_path = AxisPath
    /\ ignore_list \in IgnoreLists
    /\ count = 0
    /\ records_batch = <<>>
    /\ record_dict = EmptyDict
    /\ elem = NoEvent
    /\ fired = <<>>
    /\ cleared = {}
    /\ inserted = <<>>
    /\ MatchIdle
    /\ TranslateIdle

\* line 149: the parser fires the next end event
NextEvent ==
    /\ pc = "iter"
    /\ Len(fired) < MaxEvents
    /\ \E ev \in Events :
         /\ elem' = ev
         /\ fired' = Append(fired, ev)
    /\ pc' = "match"
    /\ UNCHANGED <<MDB_BATCH_INSERT_SIZE, axis_path, ignore_list, count, records_batch,
                   record_dict, cleared, inserted>>
    /\ UNCHANGED <<matchVars, translateVars>>

\* line 149: the source is exhausted and the loop ends
EndOfStream ==
    /\ pc = "iter"
    /\ pc' = "final"
    /\ UNCHANGED <<MDB_BATCH_INSERT_SIZE, axis_path, ignore_list, count, records_batch,
                   record_dict, elem, fired, cleared, inserted>>
    /\ UNCHANGED <<matchVars, translateVars>>

\* line 150
MatchElement ==
    /\ pc = "match"
    /\ pc' = IF is_matching_repeating_element(axis_path, elem) THEN "translate" ELSE "iter"
    /\ UNCHANGED <<MDB_BATCH_INSERT_SIZE, axis_path, ignore_list, count, records_batch,
                   record_dict, elem, fired, cleared, inserted>>
    /\ UNCHANGED <<matchVars, translateVars>>

\* lines 151-153
TranslateElement ==
    /\ pc = "translate"
    /\ record_dict' = recurse_element_descending(elem.node, ignore_list, 1)
    /\ pc' = IF Truthy(record_dict') THEN "append" ELSE "iter"
    /\ UNCHANGED <<MDB_BATCH_INSERT_SIZE, axis_path, ignore_list, count, records_batch,
                   elem, fired, cleared, inserted>>
    /\ UNCHANGED <<matchVars, translateVars>>

\* lines 154-155
WrapVal(record_dict_) ==
    IF record_dict_.kind # "dict"
    THEN DictVal(<<[k |-> "val", v |-> record_dict_]>>)
    ELSE record_dict_

\* lines 154-158
AppendRecord ==
    /\ pc = "append"
    /\ record_dict' = WrapVal(record_dict)
    /\ records_batch' = Append(records_batch, record_dict')
    /\ pc' = "flush_check"
    /\ UNCHANGED <<MDB_BATCH_INSERT_SIZE, axis_path, ignore_list, count, elem, fired,
                   cleared, inserted>>
    /\ UNCHANGED <<matchVars, translateVars>>

\* mutant: the first document no longer triggers a flush
ShouldFlushAfterFirst(count_, size) == count_ > 0 /\ count_ % size = 0

\* line 160
ShouldFlush(count_, size) == count_ % size = 0

\* a coll.insert_many call that returns: the batch it was given and the line that made it
InsertMany(batch, site) == Append(inserted, [docs |-> batch, site |-> site])

\* mutant: line 162 is left out
AutoFlushKeepingBatch ==
    /\ pc = "flush_check"
    /\ IF ShouldFlush(count, MDB_BATCH_INSERT_SIZE)
       THEN inserted' = InsertMany(records_batch, "loop")
       ELSE UNCHANGED inserted
    /\ pc' = "clear"
    /\ UNCHANGED <<MDB_BATCH_INSERT_SIZE, axis_path, ignore_list, count, record_dict,
                   records_batch, elem, fired, cleared>>
    /\ UNCHANGED <<matchVars, translateVars>>

\* lines 160-162 (the progress line of 164-165 changes no state)
AutoFlush ==
    /\ pc = "flush_check"
    /\ IF ShouldFlush(count, MDB_BATCH_INSERT_SIZE)
       THEN /\ inserted' = InsertMany(records_batch, "loop")
            /\ records_batch' = <<>>
       ELSE UNCHANGED <<inserted, records_batch>>
    /\ pc' = "clear"
    /\ UNCHANGED <<MDB_BATCH_INSERT_SIZE, axis_path, ignore_list, count, record_dict,
                   elem, fired, cleared>>
    /\ UNCHANGED <<matchVars, translateVars>>

\* lines 167-168: elem.clear() and count += 1
ClearAndCount ==
    /\ pc = "clear"
    /\ cleared' = cleared \cup {Len(fired)}
    /\ count' = count + 1
    /\ pc' = "iter"
    /\ UNCHANGED <<MDB_BATCH_INSERT_SIZE, axis_path, ignore_list, records_batch,
                   record_dict, elem, fired, inserted>>
    /\ UNCHANGED <<matchVars, translateVars>>

\* mutant: the test of line 170 is left out
FinalFlushUnguarded ==
    /\ pc = "final"
    /\ inserted' = InsertMany(records_batch, "end")
    /\ records_batch' = <<>>
    /\ pc' = "done"
    /\ UNCHANGED <<MDB_BATCH_INSERT_SIZE, axis_path, ignore_list, count, record_dict,
                   elem, fired, cleared>>
    /\ UNCHANGED <<matchVars, translateVars>>

\* lines 170-175
FinalFlush ==
    /\ pc = "final"
    /\ IF records_batch # <<>>
       THEN /\ inserted' = InsertMany(records_batch, "end")
            /\ records_batch' = <<>>
       ELSE UNCHANGED <<inserted, records_batch>>
    /\ pc' = "done"
    /\ UNCHANGED <<MDB_BATCH_INSERT_SIZE, axis_path, ignore_list, count, record_dict,
                   elem, fired, cleared>>
    /\ UNCHANGED <<matchVars, translateVars>>

\* lines 161 and 171: coll.insert_many raises and the run ends with the error
InsertManyRaises ==
    /\ \/ pc = "flush_check" /\ ShouldFlush(count, MDB_BATCH_INSERT_SIZE)
       \/ pc = "final" /\ records_batch # <<>>
    /\ pc' = "error"
    /\ UNCHANGED <<MDB_BATCH_INSERT_SIZE, axis_path, ignore_list, count, records_batch,
                   record_dict, elem, fired, cleared, inserted>>
    /\ UNCHANGED <<matchVars, translateVars>>

Next ==
    \/ NextEvent
    \/ EndOfStream
    \/ MatchElement
    \/ TranslateElement
    \/ AppendRecord
    \/ AutoFlush
    \/ ClearAndCount
    \/ FinalFlush
    \/ InsertManyRaises

Spec == Init /\ [][Next]_vars

(***************************************************************************)
(* What a run is expected to deliver, read off the events fired            *)
(***************************************************************************)
\* the element sits exactly at the repeating path
Accepted(ev) == ev.lineage = axis_path

Translation(ev) == recurse_element_descending(ev.node, ignore_list, 1)

\* the translated documents of the accepted elements, in document order
RECURSIVE DocsOf(_)
DocsOf(evs) ==
    IF evs = <<>>
    THEN <<>>
    ELSE (IF Accepted(Head(evs)) /\ Truthy(Translation(Head(evs)))
          THEN <<WrapVal(Translation(Head(evs)))>>
          ELSE <<>>) \o DocsOf(Tail(evs))

\* the batches of the insert_many calls so far, concatenated in call order
RECURSIVE Flatten(_)
Flatten(calls) == IF calls = <<>> THEN <<>> ELSE Head(calls).docs \o Flatten(Tail(calls))

Ceil(t, b) == (t + b - 1) \div b

BobDoc == DictVal(<<[k |-> "name", v |-> ListVal(<<StrVal(<<"B", "o", "b">>)>>)]>>)

(***************************************************************************)
(* Claims about insert_array_elements_into_db                              *)
(***************************************************************************)
\* C1: a run that ends without error makes ceil(T / B) insert_many calls, T the number
\* of documents added to the batch and B the batch size.
C1_FlushCountIsCeil ==
    pc = "done" => Len(inserted) = Ceil(Len(DocsOf(fired)), MDB_BATCH_INSERT_SIZE)

\* C2: in a run that ends without error the batches given to insert_many, concatenated
\* in call order, are the translated documents of the accepted elements in document order.
C2_BatchesConcatenateToDocuments ==
    pc = "done" => Flatten(inserted) = DocsOf(fired)

C2_Witness ==
    /\ pc = "done"
    /\ Len(inserted) >= 3
    /\ inserted[Len(inserted)].site = "end"
    /\ Cardinality({DocsOf(fired)[i] : i \in 1..Len(DocsOf(fired))}) >= 2

\* C3: every element the parser has fired is cleared before the next event is handled,
\* whether or not it passed the path check and whether or not its translation was empty.
C3_EveryFiredElementCleared ==
    pc \in {"iter", "final", "done"} => cleared = 1..Len(fired)

\* C8: for <DATA><ITEMS><ITEM><name>Bob</name></ITEM></ITEMS></DATA>, path DATA/ITEMS/ITEM,
\* no ignore list and the default batch size, the one document {"name": ["Bob"]} is
\* inserted by the flush after the loop and not by a flush inside the loop.
C8_BobFlushedAtEndOfStream ==
    (/\ pc = "done"
     /\ fired = <<[lineage |-> <<"DATA", "ITEMS", "ITEM">>, node |-> ItemBob]>>
     /\ axis_path = <<"DATA", "ITEMS", "ITEM">>
     /\ ignore_list = <<>>
     /\ MDB_BATCH_INSERT_SIZE = DefaultBatchSize)
    => inserted = <<[docs |-> <<BobDoc>>, site |-> "end"]>>

\* C9: in every state the number of pending documents in records_batch is at most the
\* batch size.
C9_PendingBatchBounded == Len(records_batch) <= MDB_BATCH_INSERT_SIZE

C9_Witness ==
    /\ MDB_BATCH_INSERT_SIZE \in 2..MaxBatch
    /\ Len(records_batch) = MDB_BATCH_INSERT_SIZE
    /\ count > MDB_BATCH_INSERT_SIZE

\* C10: no insert_many call is given an empty batch, and every document given is a
\* non-empty mapping; an accepted element with an empty translation is neither added
\* nor counted; a bare text translation is added as {'val': text}.
C10_InsertedDocumentsNonEmpty ==
    /\ \A i \in 1..Len(inserted) :
         /\ inserted[i].docs # <<>>
         /\ \A j \in 1..Len(inserted[i].docs) :
              /\ inserted[i].docs[j].kind = "dict"
              /\ inserted[i].docs[j].items # <<>>
    /\ \A j \in 1..Len(records_batch) :
         records_batch[j].kind = "dict" /\ records_batch[j].items # <<>>
    /\ pc \in {"iter", "final"} =>
         /\ count = Len(Flatten(inserted)) + Len(records_batch)
         /\ count = Cardinality({i \in 1..Len(fired) :
                                   Accepted(fired[i]) /\ Truthy(Translation(fired[i]))})
    /\ pc = "done" =>
         \A i \in 1..Len(fired) :
            (Accepted(fired[i]) /\ Translation(fired[i]).kind = "str"
                                /\ Translation(fired[i]).s # <<>>)
            => \E j \in 1..Len(Flatten(inserted)) :
                 Flatten(inserted)[j] =
                     DictVal(<<[k |-> "val", v |-> StrVal(fired[i].node.text)]>>)

C10_Witness ==
    /\ pc = "done"
    /\ Len(inserted) >= 2
    /\ \E i \in 1..Len(fired) : Accepted(fired[i]) /\ ~Truthy(Translation(fired[i]))
    /\ \E i \in 1..Len(fired) : Accepted(fired[i]) /\ Translation(fired[i]).kind = "str"

(***************************************************************************)
(* is_matching_repeating_element on its own: any path of at least two      *)
(* segments (main, lines 107-109) against any lineage                      *)
(***************************************************************************)
PathTags == {"DATA", "ITEMS", "ITEM"}

SeqsOver(S, lo, hi) == UNION {[1..n -> S] : n \in lo..hi}

InitMatch ==
    /\ m_pc = "call"
    /\ m_axis_path \in SeqsOver(PathTags, 2, MaxLineage - 1)
    /\ m_elem \in {[lineage |-> l, node |-> NoEvent.node] :
                     l \in SeqsOver(PathTags, 1, MaxLineage)}
    /\ m_result = FALSE
    /\ DriverIdle
    /\ TranslateIdle

\* lines 226-238
CallMatch ==
    /\ m_pc = "call"
    /\ m_result' = is_matching_repeating_element(m_axis_path, m_elem)
    /\ m_pc' = "returned"
    /\ UNCHANGED <<m_axis_path, m_elem, driverVars, translateVars>>

NextMatch == CallMatch

SpecMatch == InitMatch /\ [][NextMatch]_vars

\* C4: is_matching_repeating_element returns true exactly when the tags from the document
\* root down to the element are the path; an element with a further ancestor above the
\* first segment is rejected, and so is one with fewer ancestors than the path has segments.
C4_MatchesExactlyTheFullPath ==
    m_pc = "returned" =>
      /\ m_result <=> (m_elem.lineage = m_axis_path)
      /\ Len(m_elem.lineage) > Len(m_axis_path) => ~m_result
      /\ Len(m_elem.lineage) < Len(m_axis_path) => ~m_result

C4_Witness ==
    /\ m_pc = "returned"
    /\ ~m_result
    /\ Len(m_elem.lineage) = Len(m_axis_path) + 1
    /\ SubSeq(m_elem.lineage, 2, Len(m_elem.lineage)) = m_axis_path

(***************************************************************************)
(* recurse_element_descending on its own: the element grows from a leaf,   *)
(* one enclosing element at a time, and is then translated at depth 1      *)
(***************************************************************************)
Leaves ==
    {Element(tag, <<>>, text, <<>>) :
        tag \in {"note", "sub"}, text \in {<<>>, <<" ">>, <<"A">>}}
    \cup {Element("note", <<<<"val", <<"v">>>>>>, <<"A">>, <<>>),
          Element("sub", <<<<"val", <<"v">>>>>>, <<>>, <<>>)}

\* text and attributes of an enclosing element
Enclosings ==
    {[text |-> <<>>, attrib |-> <<>>],
     [text |-> <<"T">>, attrib |-> <<>>],
     [text |-> <<" ">>, attrib |-> <<<<"note", <<>>>>, <<"sub", <<"y">>>>>>],
     [text |-> <<"T">>, attrib |-> <<<<"note", <<"x">>>>, <<"_note", <<"z">>>>>>]}

Sibling == Element("note", <<>>, <<"B">>, <<>>)

ChildLists(e) == {<<e>>, <<Sibling, e, Sibling>>}

RECURSIVE Height(_)
Height(e) ==
    IF e.children = <<>>
    THEN 0
    ELSE 1 + CHOOSE h \in {Height(e.children[i]) : i \in 1..Len(e.children)} :
                 \A i \in 1..Len(e.children) : Height(e.children[i]) <= h

InitTranslate ==
    /\ t_pc = "build"
    /\ t_elem \in Leaves
    /\ t_ignore_list \in IgnoreLists
    /\ t_result = EmptyDict
    /\ DriverIdle
    /\ MatchIdle

\* one more level of the input tree
GrowElement ==
    /\ t_pc = "build"
    /\ Height(t_elem) < MaxDepth
    /\ \E tag \in {"note", "sub"}, enc \in Enclosings, kids \in ChildLists(t_elem) :
         t_elem' = Element(tag, enc.attrib, enc.text, kids)
    /\ UNCHANGED <<t_pc, t_ignore_list, t_result, driverVars, matchVars>>

\* line 151: the call on the repeating element
CallTranslate ==
    /\ t_pc = "build"
    /\ t_result' = recurse_element_descending(t_elem, t_ignore_list, 1)
    /\ t_pc' = "translated"
    /\ UNCHANGED <<t_elem, t_ignore_list, driverVars, matchVars>>

NextTranslate ==
    \/ GrowElement
    \/ CallTranslate

SpecTranslate == InitTranslate /\ [][NextTranslate]_vars

(***************************************************************************)
(* What a translation is expected to hold, read off the element tree       *)
(***************************************************************************)
\* every element of the tree with the depth recurse_element_descending gets for it
RECURSIVE NodesAt(_, _)
NodesAt(e, depth) ==
    {[node |-> e, depth |-> depth]}
    \cup UNION {NodesAt(e.children[i], depth + 1) : i \in 1..Len(e.children)}

\* the translation of an element of the tree; that of the root is the result of the call
TranslationAt(n) ==
    IF n.depth = 1
    THEN t_result
    ELSE recurse_element_descending(n.node, t_ignore_list, n.depth)

\* the non-empty translations of the children with the tag, in document order
RECURSIVE KeptOfTag(_, _, _)
KeptOfTag(children, tag, depth) ==
    IF children = <<>>
    THEN <<>>
    ELSE LET c == recurse_element_descending(Head(children), t_ignore_list, depth + 1)
         IN  (IF Head(children).tag = tag /\ Truthy(c) THEN <<c>> ELSE <<>>)
             \o KeptOfTag(Tail(children), tag, depth)

\* the tag is dropped by the ignore list at this depth
Ignored(tag, depth) == depth = 1 /\ InList(tag, t_ignore_list)

\* the name with k underscores before it
RECURSIVE Underscored(_, _)
Underscored(k, name) == IF k = 0 THEN name ELSE "_" \o Underscored(k - 1, name)

\* the tags of the children whose translations the result of the element holds
KeptTags(n) ==
    {n.node.children[i].tag : i \in
        {j \in 1..Len(n.node.children) :
            /\ KeptOfTag(n.node.children, n.node.children[j].tag, n.depth) # <<>>
            /\ ~Ignored(n.node.children[j].tag, n.depth)}}

\* the attributes of the element that are stored
StoredAttrs(n) == {i \in 1..Len(n.node.attrib) : n.node.attrib[i][2] # <<>>}

(***************************************************************************)
(* Claims about recurse_element_descending                                 *)
(***************************************************************************)
\* C5: a child whose tag is in the ignore list is left out only when it is a direct child
\* of the repeating element; below that, an element with such a tag is included under
\* its tag in its parent's translation whenever its own translation is non-empty.
C5_IgnoreOnlyAtDepthOne ==
    t_pc = "translated" =>
      /\ \A i \in 1..Len(t_elem.children) :
           (InList(t_elem.children[i].tag, t_ignore_list) /\ t_result.kind = "dict")
           => ~(/\ HasKey(t_result, t_elem.children[i].tag)
                /\ DictGet(t_result, t_elem.children[i].tag).kind = "list")
      /\ \A n \in NodesAt(t_elem, 1) :
           n.depth > 1 =>
             \A i \in 1..Len(n.node.children) :
                LET g == n.node.children[i]
                    tr == recurse_element_descending(g, t_ignore_list, n.depth + 1)
                IN  (InList(g.tag, t_ignore_list) /\ Truthy(tr))
                    => /\ TranslationAt(n).kind = "dict"
                       /\ HasKey(TranslationAt(n), g.tag)
                       /\ DictGet(TranslationAt(n), g.tag).kind = "list"
                       /\ InList(tr, DictGet(TranslationAt(n), g.tag).items)
      /\ \A i \in 1..Len(t_elem.children) :
           LET c == t_elem.children[i]
               tr == recurse_element_descending(c, t_ignore_list, 2)
           IN  (~InList(c.tag, t_ignore_list) /\ Truthy(tr))
               => /\ t_result.kind = "dict"
                  /\ HasKey(t_result, c.tag)
                  /\ InList(tr, DictGet(t_result, c.tag).items)

\* <item><note>B</note><sub>...<note>B</note>...</sub><note>B</note></item>, ignore list {note}
C5_Witness ==
    /\ t_pc = "translated"
    /\ t_ignore_list = <<"note">>
    /\ \E i \in 1..Len(t_elem.children) :
         /\ t_elem.children[i].tag = "note"
         /\ Truthy(recurse_element_descending(t_elem.children[i], t_ignore_list, 2))
    /\ t_result.kind = "dict"
    /\ ~HasKey(t_result, "note")
    /\ HasKey(t_result, "sub")
    /\ \E j \in 1..Len(DictGet(t_result, "sub").items) :
         /\ DictGet(t_result, "sub").items[j].kind = "dict"
         /\ HasKey(DictGet(t_result, "sub").items[j], "note")

\* C6: at every nesting level, the key of a child tag maps to the list of the non-empty
\* translations of the children with that tag, in document order; a list even for one child.
C6_ChildKeysMapToLists ==
    t_pc = "translated" =>
      \A n \in NodesAt(t_elem, 1) :
         \A tag \in KeptTags(n) :
            /\ TranslationAt(n).kind = "dict"
            /\ HasKey(TranslationAt(n), tag)
            /\ DictGet(TranslationAt(n), tag) =
                   ListVal(KeptOfTag(n.node.children, tag, n.depth))

C6_Witness ==
    /\ t_pc = "translated"
    /\ t_result.kind = "dict"
    /\ HasKey(t_result, "sub")
    /\ Len(DictGet(t_result, "sub").items) = 1
    /\ DictGet(t_result, "sub").items[1].kind = "dict"
    /\ HasKey(DictGet(t_result, "sub").items[1], "note")
    /\ Len(DictGet(DictGet(t_result, "sub").items[1], "note").items) = 3
    /\ DictGet(DictGet(t_result, "sub").items[1], "note").items[1] = StrVal(<<"B">>)
    /\ DictGet(DictGet(t_result, "sub").items[1], "note").items[2] # StrVal(<<"B">>)

\* the element has a stored attribute and a child with a non-empty translation of one name
SameNameAttrAndChild(n, i) ==
    /\ n.node.attrib[i][2] # <<>>
    /\ KeptOfTag(n.node.children, n.node.attrib[i][1], n.depth) # <<>>

\* the translation holds the children's list under the name and the attribute value
\* under the name with underscores before it
HoldsBoth(n, i) ==
    LET name == n.node.attrib[i][1]
        r == TranslationAt(n)
    IN  /\ r.kind = "dict"
        /\ HasKey(r, name)
        /\ DictGet(r, name) = ListVal(KeptOfTag(n.node.children, name, n.depth))
        /\ \E k \in 1..Len(r.items) :
             /\ HasKey(r, Underscored(k, name))
             /\ DictGet(r, Underscored(k, name)) = StrVal(n.node.attrib[i][2])

\* nothing stored in the mapping is overwritten: one entry for each kept child tag, each
\* stored attribute and the text
NothingOverwritten(n) ==
    TranslationAt(n).kind = "dict" =>
      Len(TranslationAt(n).items) =
          Cardinality(KeptTags(n)) + Cardinality(StoredAttrs(n))
          + (IF HasText(n.node.text) THEN 1 ELSE 0)

\* C7 as stated: whenever an element has an attribute and a child of the same name (value
\* and child translation non-empty), its translation holds both under distinct keys.
C7_AttributeAndChildBothKept_AsStated ==
    t_pc = "translated" =>
      \A n \in NodesAt(t_elem, 1) :
         /\ \A i \in 1..Len(n.node.attrib) : SameNameAttrAndChild(n, i) => HoldsBoth(n, i)
         /\ NothingOverwritten(n)

\* C7 (amended): the same, for a child that the ignore list does not drop, that is, unless
\* the element is the repeating element and the name is in the ignore list; and
\* set_unique_key_val_if_exists never overwrites a key already present.
C7_AttributeAndChildBothKept ==
    t_pc = "translated" =>
      \A n \in NodesAt(t_elem, 1) :
         /\ \A i \in 1..Len(n.node.attrib) :
              (SameNameAttrAndChild(n, i) /\ ~Ignored(n.node.attrib[i][1], n.depth))
              => HoldsBoth(n, i)
         /\ NothingOverwritten(n)

C7_Witness ==
    /\ t_pc = "translated"
    /\ t_result.kind = "dict"
    /\ HasKey(t_result, "note")
    /\ DictGet(t_result, "note").kind = "list"
    /\ HasKey(t_result, "_note")
    /\ DictGet(t_result, "_note") = StrVal(<<"x">>)
    /\ HasKey(t_result, "__note")
    /\ DictGet(t_result, "__note") = StrVal(<<"z">>)

====
